---- MODULE Spec2Model ----
(***************************************************************************)
(* Model of secsgem/secsHandler.py: the inbound dispatch pipeline of       *)
(* secsHandler (_onHsmsPacketReceived, _runCallbacks, secsDecode) with the *)
(* callback registry, the per-packet callback threads and the queue of     *)
(* unclaimed packets.                                                      *)
(***************************************************************************)
EXTENDS Integers, Naturals, Sequences, FiniteSets, TLC

\* ---------------------------------------------------------------- bounds
MaxPackets == 2          \* packets handed to _onHsmsPacketReceived in one run
MaxCallbacks == 2        \* callbacks registered in all

\* ---------------------------------------------------------------- inputs
Streams == {1, 6}
Functions == {3, 11}
Bodies == {"ok", "bad"}            \* packet.data the codec accepts / rejects

\* What one call `callback(self, response)` can do: return True, return
\* False, raise, or never return.
Outcomes == {"True", "False", "raise", "block"}

VARIABLES
    isHost,      \* self.isHost
    callbacks,   \* self.callbacks: dispatch key -> list of callbacks
    packets,     \* packets handed to _onHsmsPacketReceived, in arrival order
    rx,          \* per packet: how its _onHsmsPacketReceived call ended
    joined,      \* callback thread the receive path is waiting on (0: none)
    thr,         \* per packet: the thread running _runCallbacks for it
    log,         \* per packet: the callback calls made, <<callback, outcome>>
    queue,       \* packets pushed by _queuePacket, oldest first
    connection,  \* self.connection is set (a connection is established)
    call         \* the last call of a convenience operation or resolver

vars == <<isHost, callbacks, packets, rx, joined, thr, log, queue, connection, call>>

\* ------------------------------------------------------ descriptor tables
\* stream -> set of functions that have a descriptor class.
secsStreamsFunctionsHost ==
    [s \in {1, 2, 10} |->
        CASE s = 1 -> {1, 3, 11}
          [] s = 2 -> {13, 15, 29, 33, 37}
          [] s = 10 -> {3}]
secsStreamsFunctionsEquipment ==
    [s \in {1, 2, 6} |->
        CASE s = 1 -> {4, 12}
          [] s = 2 -> {14, 16, 30}
          [] s = 6 -> {11}]

\* ------------------------------------------------------------ dispatch key
RECURSIVE Str(_)
\* str(n) of a non-negative int: its decimal digits, no padding
Digit(d) == <<"0", "1", "2", "3", "4", "5", "6", "7", "8", "9">>[d + 1]
Str(n) == IF n < 10 THEN <<Digit(n)>> ELSE Str(n \div 10) \o <<Digit(n % 10)>>

\* The key built like the log messages, "S%02dF%02d"-style zero padding.
CallbackIndexPadded(stream, function) ==
    <<"s">> \o (IF stream < 10 THEN <<"0">> ELSE <<>>) \o Str(stream)
        \o <<"f">> \o (IF function < 10 THEN <<"0">> ELSE <<>>) \o Str(function)

\* "s" + str(stream) + "f" + str(function)
CallbackIndex(stream, function) == <<"s">> \o Str(stream) \o <<"f">> \o Str(function)

\* --------------------------------------------------------------- decoding
\* secsDecode looking the pair up in the handler's own table.
secsDecodeOwnTable(host, packet) ==
    LET secs_streams_functions ==
            IF host THEN secsStreamsFunctionsHost ELSE secsStreamsFunctionsEquipment
    IN  IF packet.stream \notin DOMAIN secs_streams_functions THEN "none"
        ELSE IF packet.function \notin secs_streams_functions[packet.stream] THEN "none"
        ELSE IF packet.data = "bad" THEN "error"
        ELSE "decoded"

\* secsDecode: "none" (returns None), "decoded" (returns the function
\* object) or "error" (function.decode raised; nothing catches it).
secsDecode(host, packet) ==
    LET secs_streams_functions ==
            IF host THEN secsStreamsFunctionsEquipment ELSE secsStreamsFunctionsHost
    IN  IF packet.stream \notin DOMAIN secs_streams_functions THEN "none"
        ELSE IF packet.function \notin secs_streams_functions[packet.stream] THEN "none"
        ELSE IF packet.data = "bad" THEN "error"
        ELSE "decoded"

\* ------------------------------------------------------------- registries
\* Keys the application registers callbacks under in this model.
RegKeys == {CallbackIndex(6, 11), CallbackIndex(6, 3)}

\* Non-empty lists of at most MaxCallbacks callbacks.  A callback is named
\* by its registration number under the key: the list holds 1, 2, .., n in
\* the order registerCallback appended them.
CallbackLists == {[i \in 1..n |-> i] : n \in 1..MaxCallbacks}

RECURSIVE SumLen(_, _)
\* Number of callbacks registered under the keys ks of registry reg.
SumLen(reg, ks) ==
    IF ks = {} THEN 0
    ELSE LET k == CHOOSE x \in ks : TRUE
         IN  Len(reg[k]) + SumLen(reg, ks \ {k})

\* A registry: every registered key holds at least one callback, and at
\* most MaxCallbacks callbacks are registered in all.
Registries ==
    {reg \in UNION {[ks -> CallbackLists] : ks \in SUBSET RegKeys} :
        SumLen(reg, DOMAIN reg) <= MaxCallbacks}

\* ------------------------------------------------------------------ state
Received == 1..Len(packets)

KeyOf(p) == CallbackIndex(packets[p].stream, packets[p].function)

\* No convenience operation was called yet.
NoCall ==
    [op |-> "none", conn |-> FALSE, stream |-> 0, function |-> 0,
     resolved |-> 0, built |-> 0, sent |-> 0, waited |-> 0,
     got |-> "-", result |-> "None"]

NoThread == [pc |-> "none", cbs |-> <<>>, idx |-> 0, handeled |-> FALSE]

Init ==
    /\ isHost = TRUE
    /\ callbacks \in Registries
    /\ packets = <<>>
    /\ rx = <<>>
    /\ joined = 0
    /\ thr = <<>>
    /\ log = <<>>
    /\ queue = <<>>
    /\ connection = FALSE
    /\ call = NoCall

\* _queuePacket(packet): append to the queue of unclaimed packets
QueuePacket(q, p) == Append(q, p)

\* The membership test of line 129 dropped: a thread for every packet.
HasCallbacksAlways(key) == TRUE

\* line 129: `callback_index in self.callbacks`
HasCallbacks(key) == key \in DOMAIN callbacks

\* The else of line 131 dropped: every packet is pushed by the handler.
QueuesDirectlyNoElse(key) == TRUE

\* lines 131-132: the else branch pushes the packet itself
QueuesDirectly(key) == ~HasCallbacks(key)

\* The handler joining the thread it started.
JoinTargetJoin(p) == p

\* line 130: Thread(...).start() returns at once; the handler joins nothing
JoinTarget(p) == 0

\* `if callback(...)` instead of `if not callback(...) is False`: only a
\* true result marks the packet handled.
HandeledTruthy(h, r) == IF r = "True" THEN TRUE ELSE h

\* The flag overwritten by each result instead of latched.
HandeledLastWins(h, r) == r # "False"

\* lines 103-104: any result other than False marks the packet handled
Handeled(h, r) == IF r # "False" THEN TRUE ELSE h

\* line 106: `if not handeled`
ShouldQueue(h) == ~h

\* The receive path can hand over the next packet when it is not waiting
\* on a callback thread.
ReceiverFree == IF joined = 0 THEN TRUE ELSE thr[joined].pc = "done"

\* The handler with the direct push handed to a thread as well: an
\* unregistered packet gets a thread that only runs lines 106-107.
OnHsmsPacketReceivedDeferred(stream, function, data) ==
    LET packet == [stream |-> stream, function |-> function, data |-> data]
        p == Len(packets) + 1
        callback_index == CallbackIndex(stream, function)
    IN  /\ Len(packets) < MaxPackets
        /\ ReceiverFree
        /\ packets' = Append(packets, packet)
        /\ log' = Append(log, <<>>)
        /\ IF secsDecode(isHost, packet) = "error"
           THEN /\ rx' = Append(rx, "raised")
                /\ thr' = Append(thr, NoThread)
           ELSE /\ rx' = Append(rx, "returned")
                /\ thr' = Append(thr, IF HasCallbacks(callback_index)
                                      THEN [NoThread EXCEPT !.pc = "start"]
                                      ELSE [NoThread EXCEPT !.pc = "loop", !.idx = 1])
        /\ UNCHANGED <<isHost, callbacks, joined, queue, connection, call>>

\* _onHsmsPacketReceived(packet), the whole handler
OnHsmsPacketReceived(stream, function, data) ==
    LET packet == [stream |-> stream, function |-> function, data |-> data]
        p == Len(packets) + 1
        message == secsDecode(isHost, packet)
        callback_index == CallbackIndex(stream, function)
    IN  /\ Len(packets) < MaxPackets
        /\ ReceiverFree
        /\ packets' = Append(packets, packet)
        /\ log' = Append(log, <<>>)
        /\ IF message = "error"
           THEN \* function.decode raised: the exception leaves the handler
                /\ rx' = Append(rx, "raised")
                /\ thr' = Append(thr, NoThread)
                /\ UNCHANGED <<joined, queue>>
           ELSE /\ rx' = Append(rx, "returned")
                /\ thr' = Append(thr, IF HasCallbacks(callback_index)
                                      THEN [NoThread EXCEPT !.pc = "start"]
                                      ELSE NoThread)
                /\ joined' = IF HasCallbacks(callback_index) THEN JoinTarget(p) ELSE 0
                /\ queue' = IF QueuesDirectly(callback_index)
                            THEN QueuePacket(queue, p) ELSE queue
        /\ UNCHANGED <<isHost, callbacks, connection, call>>

\* _runCallbacks, line 102: evaluate self.callbacks[callback_index]
RunCallbacksBegin(p) ==
    /\ thr[p].pc = "start"
    /\ thr' = [thr EXCEPT ![p] =
                 IF KeyOf(p) \in DOMAIN callbacks
                 THEN [@ EXCEPT !.pc = "loop", !.cbs = callbacks[KeyOf(p)], !.idx = 1]
                 ELSE [@ EXCEPT !.pc = "done"]]   \* KeyError, caught at line 109
    /\ UNCHANGED <<isHost, callbacks, packets, rx, joined, log, queue, connection, call>>

\* _runCallbacks, lines 102-104: one iteration of the for loop
RunCallbacksCall(p, r) ==
    /\ thr[p].pc = "loop"
    /\ thr[p].idx <= Len(thr[p].cbs)
    /\ log' = [log EXCEPT ![p] = Append(@, <<thr[p].cbs[thr[p].idx], r>>)]
    /\ thr' = [thr EXCEPT ![p] =
                 CASE r = "raise" -> [@ EXCEPT !.pc = "done"]   \* except clause, lines 109-112
                   [] r = "block" -> [@ EXCEPT !.pc = "blocked"]
                   [] OTHER -> [@ EXCEPT !.idx = @ + 1,
                                         !.handeled = Handeled(@, r)]]
    /\ UNCHANGED <<isHost, callbacks, packets, rx, joined, queue, connection, call>>

\* _runCallbacks, lines 106-107: after the loop
RunCallbacksEnd(p) ==
    /\ thr[p].pc = "loop"
    /\ thr[p].idx > Len(thr[p].cbs)
    /\ queue' = IF ShouldQueue(thr[p].handeled) THEN QueuePacket(queue, p) ELSE queue
    /\ thr' = [thr EXCEPT ![p].pc = "done"]
    /\ UNCHANGED <<isHost, callbacks, packets, rx, joined, log, connection, call>>

Next ==
    \/ \E s \in Streams, f \in Functions, d \in Bodies : OnHsmsPacketReceived(s, f, d)
    \/ \E p \in Received : RunCallbacksBegin(p)
    \/ \E p \in Received, r \in Outcomes : RunCallbacksCall(p, r)
    \/ \E p \in Received : RunCallbacksEnd(p)

Spec == Init /\ [][Next]_vars

TypeOK ==
    /\ Len(packets) <= MaxPackets
    /\ Len(rx) = Len(packets) /\ Len(thr) = Len(packets) /\ Len(log) = Len(packets)
    /\ \A i \in 1..Len(queue) : queue[i] \in Received

\* ------------------------------------------------------ derived notions
\* Number of times packet p was pushed onto the queue.
PushCount(p) == Cardinality({i \in 1..Len(queue) : queue[i] = p})

InQueue(p) == PushCount(p) > 0

QueuePos(p) == CHOOSE i \in 1..Len(queue) : queue[i] = p

\* Results of the callback calls made for p so far.
Results(p) == {log[p][i][2] : i \in 1..Len(log[p])}

\* Callbacks called for p so far, in call order.
Called(p) == [i \in 1..Len(log[p]) |-> log[p][i][1]]

Registered(p) == KeyOf(p) \in DOMAIN callbacks

\* Nothing more will happen for p: its handler call is over and no
\* callback thread of it is still running.
Finished(p) == thr[p].pc \in {"none", "done"}

\* ------------------------------------------------------------------ C1
\* C1: every received packet is, once its dispatch is over, delivered to
\* at least one callback or on the queue of unclaimed packets (or both).
C1_DeliveredOrQueued ==
    \A p \in Received : Finished(p) => (log[p] # <<>> \/ InQueue(p))

\* ------------------------------------------------------------------ C2
\* C2: a callback that raises does not keep the callbacks registered after
\* it under the same key from being called for the same packet.
C2_RaiseDoesNotStopSiblings ==
    \A p \in Received :
        (thr[p].pc = "done" /\ Registered(p)) =>
            \A i \in 1..Len(log[p]) :
                (log[p][i][2] = "raise" /\ log[p][i][1] < Len(callbacks[KeyOf(p)]))
                    => \E j \in 1..Len(log[p]) : log[p][j][1] = log[p][i][1] + 1

\* ------------------------------------------------------------------ C3
\* C3: a packet whose callbacks all raised or returned False is pushed
\* onto the queue when its fan-out is over.
C3_FailedCountsAsNotHandled ==
    \A p \in Received :
        (thr[p].pc = "done" /\ Results(p) \subseteq {"False", "raise"}) => InQueue(p)

\* ------------------------------------------------------------------ C4
\* C4: whatever decoding gives (None, or the codec raising), the handler
\* goes on to dispatch the packet: a callback thread is started for it or
\* it is pushed onto the queue.
C4_DispatchWhateverDecodeGives ==
    \A p \in Received :
        secsDecode(isHost, packets[p]) \in {"none", "error"}
            => (thr[p].pc # "none" \/ InQueue(p))

\* ------------------------------------------------------------------ C5
\* C5: a packet whose key has no registered callback is on the queue
\* exactly once as soon as its handler call is over, and no callback
\* thread was started for it.
C5_UnregisteredQueuedOnce ==
    \A p \in Received :
        ~Registered(p) => (PushCount(p) = 1 /\ thr[p].pc = "none" /\ log[p] = <<>>)

\* ------------------------------------------------------------------ C6
\* C6: a packet whose key has N >= 1 callbacks that all return False has,
\* once its dispatch is over, had callbacks 1..N called once each in
\* registration order and is on the queue exactly once.
C6_AllDeclinedThenQueuedOnce ==
    \A p \in Received :
        (Registered(p) /\ Finished(p) /\ Results(p) \subseteq {"False"})
            => (Called(p) = callbacks[KeyOf(p)] /\ PushCount(p) = 1)

\* ------------------------------------------------------------------ C7
\* C7: the receive path never waits on a callback thread: whatever the
\* callback threads are doing (blocked, raised, running), the handler can
\* be called for the next packet, and a handler call only ever raises
\* because the codec raised on that packet's body, never because of a
\* callback.
C7_ReceivePathNeverWaits ==
    /\ joined = 0
    /\ Len(packets) < MaxPackets =>
           ENABLED (\E s \in Streams, f \in Functions, d \in Bodies :
                        OnHsmsPacketReceived(s, f, d))
    /\ \A p \in Received :
           rx[p] = "raised" =>
               (secsDecode(isHost, packets[p]) = "error" /\ log[p] = <<>>)

\* A callback of an earlier packet is blocked and a later packet was
\* dispatched and ran its callbacks to the end.
C7_Witness ==
    \E p, q \in Received :
        /\ p < q
        /\ thr[p].pc = "blocked"
        /\ thr[q].pc = "done" /\ log[q] # <<>> /\ rx[q] = "returned"

C9_PushedAtMostOnce ==
    \A p \in Received : PushCount(p) <= 1

\* One packet was pushed by its callback thread and another by the handler.
C9_Witness ==
    \E p, q \in Received :
        /\ Registered(p) /\ thr[p].pc = "done" /\ PushCount(p) = 1
        /\ ~Registered(q) /\ PushCount(q) = 1

\* ----------------------------------------------------------------- C10
\* C10: a packet on the queue either has no callback registered under its
\* key or had every registered callback called and returning False; a
\* packet one of whose callbacks returned True is not on the queue.
C10_QueueHoldsOnlyUnclaimed ==
    \A p \in Received :
        /\ InQueue(p) =>
               \/ ~Registered(p)
               \/ /\ Called(p) = callbacks[KeyOf(p)]
                  /\ Results(p) = {"False"}
        /\ "True" \in Results(p) => ~InQueue(p)

\* A callback returned True, a later one returned False, the fan-out is
\* over and the packet is not on the queue.
C10_Witness ==
    \E p \in Received :
        /\ thr[p].pc = "done"
        /\ Len(log[p]) = 2 /\ log[p][1][2] = "True" /\ log[p][2][2] = "False"
        /\ ~InQueue(p)

\* ================================================= convenience operations
\* The resolver, the decoder and the convenience operations called by the
\* application, under either role and with or without a connection.

\* The (stream, function) pairs of a table.
PairsOf(table) == UNION {{<<st, fn>> : fn \in table[st]} : st \in DOMAIN table}

HostPairs == PairsOf(secsStreamsFunctionsHost)

EquipmentPairs == PairsOf(secsStreamsFunctionsEquipment)

\* (stream, function) pairs the application resolves or decodes: every
\* pair of either table, a function missing under an existing stream and a
\* missing stream.
ApiPairs == HostPairs \cup EquipmentPairs \cup {<<1, 2>>, <<6, 12>>, <<99, 1>>}

\* streamFunction with the tables swapped.
streamFunctionOppositeTable(host, stream, function) ==
    LET secs_streams_functions ==
            IF host THEN secsStreamsFunctionsEquipment ELSE secsStreamsFunctionsHost
        table == IF host THEN "equipment" ELSE "host"
    IN  IF stream \notin DOMAIN secs_streams_functions THEN <<>>
        ELSE IF function \notin secs_streams_functions[stream] THEN <<>>
        ELSE <<[table |-> table, stream |-> stream, function |-> function]>>

\* streamFunction(stream, function): <<>> for None, else the descriptor
\* class found, named by the table that holds it and its pair.
streamFunction(host, stream, function) ==
    LET secs_streams_functions ==
            IF host THEN secsStreamsFunctionsHost ELSE secsStreamsFunctionsEquipment
        table == IF host THEN "host" ELSE "equipment"
    IN  IF stream \notin DOMAIN secs_streams_functions THEN <<>>
        ELSE IF function \notin secs_streams_functions[stream] THEN <<>>
        ELSE <<[table |-> table, stream |-> stream, function |-> function]>>

\* secsDecode(packet) on what sendAndWaitForResponse returned: <<>> is
\* None, whose `.header` raises at line 335; <<packet>> is a packet.
secsDecodeResponse(host, response) ==
    IF response = <<>> THEN "error" ELSE secsDecode(host, response[1])

\* The operations that call the correlator themselves, with the pair they
\* send and what they do with the response.
DirectOps ==
    [disableCEIDs |-> [stream |-> 2, function |-> 37, post |-> "packet"],
     disableCEIDReports |-> [stream |-> 2, function |-> 33, post |-> "packet"],
     listSVs |-> [stream |-> 1, function |-> 11, post |-> "decode"],
     requestSVs |-> [stream |-> 1, function |-> 3, post |-> "decode"],
     listECs |-> [stream |-> 2, function |-> 29, post |-> "decode"],
     requestECs |-> [stream |-> 2, function |-> 13, post |-> "decode"],
     setECs |-> [stream |-> 2, function |-> 15, post |-> "decode_get"],
     sendEquipmentTerminal |-> [stream |-> 10, function |-> 3, post |-> "packet"],
     areYouThere |-> [stream |-> 1, function |-> 1, post |-> "discard"]]

\* The single-item operations, the operation each delegates to and what
\* it does with that operation's result.
SingleOps ==
    [requestSV |-> [via |-> "requestSVs", post |-> "index0"],
     requestEC |-> [via |-> "requestECs", post |-> "same"],
     setEC |-> [via |-> "setECs", post |-> "same"]]

\* Responses of the correlator to a request for (stream, function) on an
\* established connection: None, or the reply packet with a body the
\* codec accepts or rejects.
Responses(stream, function) ==
    {<<>>} \cup {<<[stream |-> stream, function |-> function + 1, data |-> d]>> : d \in Bodies}

\* sendAndWaitForResponse(message): without a connection None at once and
\* nothing sent; else the message is sent and the caller waits for the
\* response.
SendAndWaitForResponse(conn, response) ==
    IF conn THEN [sent |-> 1, waited |-> 1, response |-> response,
                  got |-> IF response = <<>> THEN "None" ELSE "packet"]
    ELSE [sent |-> 0, waited |-> 0, response |-> <<>>, got |-> "None"]

\* An operation that lost its guard: it goes on without a connection.
ReturnsEarlyNoGuard(op, conn) == IF op = "areYouThere" THEN FALSE ELSE ~conn

\* `if not self.connection: return None`, the first statement of every
\* operation of DirectOps
ReturnsEarly(op, conn) == ~conn

\* What the body of a DirectOps operation does with the response.
PostProcess(host, post, response) ==
    CASE post = "packet" -> IF response = <<>> THEN "None" ELSE "packet"
      [] post = "discard" -> "None"
      [] post = "decode" ->
            LET m == secsDecodeResponse(host, response)
            IN  CASE m = "error" -> "raised"
                  [] m = "none" -> "None"
                  [] OTHER -> "message"
      [] post = "decode_get" ->
            LET m == secsDecodeResponse(host, response)
            IN  CASE m = "error" -> "raised"
                  [] m = "none" -> "raised"      \* None.get()
                  [] OTHER -> "value"

\* One call of an operation of DirectOps: the record of what it did.
DirectCall(op, host, conn, response) ==
    LET o == DirectOps[op]
        base == [NoCall EXCEPT !.op = op, !.conn = conn,
                               !.stream = o.stream, !.function = o.function]
    IN  IF ReturnsEarly(op, conn) THEN base
        ELSE IF streamFunction(host, o.stream, o.function) = <<>>
        THEN \* calling None raises
             [base EXCEPT !.resolved = 1, !.result = "raised"]
        ELSE LET w == SendAndWaitForResponse(conn, response)
             IN  [base EXCEPT !.resolved = 1, !.built = 1,
                              !.sent = w.sent, !.waited = w.waited, !.got = w.got,
                              !.result = PostProcess(host, o.post, w.response)]

\* One call of a single-item operation.
SingleCall(op, host, conn, response) ==
    LET o == SingleOps[op]
        r == DirectCall(o.via, host, conn, response)
    IN  [r EXCEPT !.op = op,
                  !.result = IF o.post = "same" THEN r.result
                             ELSE CASE r.result = "None" -> "raised"    \* None[0]
                                    [] r.result = "message" -> "item"
                                    [] OTHER -> "raised"]

dispatchVars == <<callbacks, packets, rx, joined, thr, log, queue>>

InitApi ==
    /\ isHost \in BOOLEAN
    /\ callbacks = <<>>
    /\ packets = <<>>
    /\ rx = <<>>
    /\ joined = 0
    /\ thr = <<>>
    /\ log = <<>>
    /\ queue = <<>>
    /\ connection = FALSE
    /\ call = NoCall

\* The transport establishes or loses the connection.
SetConnection(c) ==
    /\ connection # c
    /\ connection' = c
    /\ UNCHANGED <<isHost, call, dispatchVars>>

CallDirectOp(op, response) ==
    /\ response \in Responses(DirectOps[op].stream, DirectOps[op].function)
    /\ call' = DirectCall(op, isHost, connection, response)
    /\ UNCHANGED <<isHost, connection, dispatchVars>>

CallSingleOp(op, response) ==
    /\ response \in Responses(DirectOps[SingleOps[op].via].stream,
                              DirectOps[SingleOps[op].via].function)
    /\ call' = SingleCall(op, isHost, connection, response)
    /\ UNCHANGED <<isHost, connection, dispatchVars>>

\* The application resolving a pair by itself.
CallStreamFunction(stream, function) ==
    /\ call' = [NoCall EXCEPT !.op = "streamFunction", !.conn = connection,
                              !.stream = stream,
                              !.function = function, !.resolved = 1,
                              !.result = IF streamFunction(isHost, stream, function) = <<>>
                                         THEN "None"
                                         ELSE streamFunction(isHost, stream, function)[1].table]
    /\ UNCHANGED <<isHost, connection, dispatchVars>>

\* The application decoding a packet by itself.
CallSecsDecode(stream, function, data) ==
    /\ call' = [NoCall EXCEPT !.op = "secsDecode", !.conn = connection,
                              !.stream = stream,
                              !.function = function,
                              !.result = secsDecode(isHost, [stream |-> stream,
                                             function |-> function, data |-> data])]
    /\ UNCHANGED <<isHost, connection, dispatchVars>>

AllResponses == UNION {Responses(pr[1], pr[2]) : pr \in HostPairs}

NextApi ==
    \/ \E c \in BOOLEAN : SetConnection(c)
    \/ \E op \in DOMAIN DirectOps, r \in AllResponses : CallDirectOp(op, r)
    \/ \E op \in DOMAIN SingleOps, r \in AllResponses : CallSingleOp(op, r)
    \/ \E pr \in ApiPairs : CallStreamFunction(pr[1], pr[2])
    \/ \E pr \in ApiPairs, d \in Bodies : CallSecsDecode(pr[1], pr[2], d)

SpecApi == InitApi /\ [][NextApi]_vars

\* ----------------------------------------------------------------- C11
\* C11: an operation of DirectOps called without a connection returns None
\* and has neither resolved a descriptor, built a message, sent anything
\* nor waited.
C11_NoConnectionReturnsNone ==
    (call.op \in DOMAIN DirectOps /\ ~call.conn) =>
        /\ call.result = "None"
        /\ call.resolved = 0 /\ call.built = 0
        /\ call.sent = 0 /\ call.waited = 0

\* areYouThere was called without a connection.
C11_Witness ==
    call.op = "areYouThere" /\ ~call.conn /\ call.result = "None" /\ call.sent = 0

\* ----------------------------------------------------------------- C12
\* C12: requestSV, requestEC and setEC called without a connection return
\* None and raise nothing.
C12_SingleOpsSoftNone ==
    (call.op \in DOMAIN SingleOps /\ ~call.conn) => call.result = "None"

\* ----------------------------------------------------------------- C13
\* C13: secsDecode finds a descriptor exactly for the pairs of the table
\* of the other role: a host handler for the pairs of the equipment table,
\* an equipment handler for those of the host table; every other pair
\* gives None.
C13_DecodesWithOppositeTable ==
    call.op = "secsDecode" =>
        LET pr == <<call.stream, call.function>>
        IN  /\ isHost => (call.result # "none" <=> pr \in EquipmentPairs)
            /\ ~isHost => (call.result # "none" <=> pr \in HostPairs)

\* A host handler was given a pair that only the host table holds.
C13_Witness ==
    /\ call.op = "secsDecode" /\ isHost
    /\ <<call.stream, call.function>> \in HostPairs \ EquipmentPairs
    /\ call.result = "none"

\* ----------------------------------------------------------------- C14
\* C14: streamFunction returns the descriptor of the handler's own table
\* when the pair is in it, and None both for a missing stream and for a
\* function missing under an existing stream; a pair that only the other
\* role's table holds gives None.
C14_ResolvesWithOwnTable ==
    call.op = "streamFunction" =>
        LET pr == <<call.stream, call.function>>
            own == IF isHost THEN HostPairs ELSE EquipmentPairs
        IN  /\ pr \in own => call.result = (IF isHost THEN "host" ELSE "equipment")
            /\ pr \notin own => call.result = "None"

\* An equipment handler resolved a pair that only the host table holds.
C14_Witness ==
    /\ call.op = "streamFunction" /\ ~isHost
    /\ <<call.stream, call.function>> \in HostPairs \ EquipmentPairs
    /\ call.result = "None"

\* ----------------------------------------------------------------- C18
\* C18: a query operation that has a connection and gets None from the
\* correlator returns None and raises nothing.
C18_NoneResponseSurfaces ==
    (/\ call.op \in {"listSVs", "requestSVs", "listECs", "requestECs", "setECs"}
     /\ call.conn /\ call.waited = 1 /\ call.got = "None")
        => call.result = "None"

\* ======================================================= default results
\* The dispatch pipeline with callbacks that end without a return
\* statement (result None) or return False.
DefaultOutcomes == {"None", "False"}

NextDefault ==
    \/ \E s \in Streams, f \in Functions, d \in Bodies : OnHsmsPacketReceived(s, f, d)
    \/ \E p \in Received : RunCallbacksBegin(p)
    \/ \E p \in Received, r \in DefaultOutcomes : RunCallbacksCall(p, r)
    \/ \E p \in Received : RunCallbacksEnd(p)

SpecDefault == Init /\ [][NextDefault]_vars

\* ----------------------------------------------------------------- C15
\* C15 as stated: a packet whose callbacks all returned the default result
\* None is on the queue once they have all run.
C15_DefaultIsNotHandled ==
    \A p \in Received :
        (thr[p].pc = "done" /\ Results(p) = {"None"}) => InQueue(p)

\* C15 amended: only False counts as not handled.  Once the callbacks of a
\* packet have all run, the packet is on the queue exactly when every one
\* of them returned False; a default result None keeps it off the queue.
C15_OnlyFalseIsNotHandled ==
    \A p \in Received :
        thr[p].pc = "done" => (InQueue(p) <=> Results(p) = {"False"})

\* All callbacks of a packet returned None, the fan-out is over and the
\* packet is not on the queue.
C15_Witness ==
    \E p \in Received :
        /\ thr[p].pc = "done" /\ Results(p) = {"None"}
        /\ Len(log[p]) = Len(callbacks[KeyOf(p)])
        /\ ~InQueue(p)

\* ----------------------------------------------------------------- C16
\* C16: a packet has a callback thread only if callbacks are registered
\* under its key, and none if not; the thread calls the callbacks in
\* registration order, the next one only after the one before returned;
\* threads of different packets interleave.
C16_OneSequentialUnitPerPacket ==
    \A p \in Received :
        /\ thr[p].pc # "none" => Registered(p)
        /\ (~Registered(p) \/ rx[p] = "raised") => (thr[p].pc = "none" /\ log[p] = <<>>)
        /\ Registered(p) =>
               /\ Len(log[p]) <= Len(callbacks[KeyOf(p)])
               /\ \A i \in 1..Len(log[p]) :
                      /\ log[p][i][1] = callbacks[KeyOf(p)][i]
                      /\ i < Len(log[p]) => log[p][i][2] \in {"True", "False"}

\* The threads of two packets are both between their first and second
\* callback.
C16_Witness ==
    \E p, q \in Received :
        /\ p < q
        /\ thr[p].pc = "loop" /\ Len(log[p]) = 1 /\ thr[p].idx = 2
        /\ thr[q].pc = "loop" /\ Len(log[q]) = 1 /\ thr[q].idx = 2

\* ================================================== registry maintenance
\* The application changing the registry while packets are dispatched.

\* The application removes a key from the registry.
UnregisterKey(key) ==
    /\ key \in DOMAIN callbacks
    /\ callbacks' = [k \in DOMAIN callbacks \ {key} |-> callbacks[k]]
    /\ UNCHANGED <<isHost, packets, rx, joined, thr, log, queue, connection, call>>

\* The application registers the first callback under a key.
RegisterKey(key) ==
    /\ key \notin DOMAIN callbacks
    /\ SumLen(callbacks, DOMAIN callbacks) < MaxCallbacks
    /\ callbacks' = [k \in DOMAIN callbacks \cup {key} |->
                        IF k = key THEN <<1>> ELSE callbacks[k]]
    /\ UNCHANGED <<isHost, packets, rx, joined, thr, log, queue, connection, call>>

NextReg ==
    \/ \E s \in Streams, f \in Functions, d \in Bodies : OnHsmsPacketReceived(s, f, d)
    \/ \E p \in Received : RunCallbacksBegin(p)
    \/ \E p \in Received, r \in Outcomes : RunCallbacksCall(p, r)
    \/ \E p \in Received : RunCallbacksEnd(p)
    \/ \E k \in RegKeys : UnregisterKey(k)
    \/ \E k \in RegKeys : RegisterKey(k)

SpecReg == Init /\ [][NextReg]_vars

\* ----------------------------------------------------------------- C17
\* C17: with the registry changed while packets are dispatched, a packet
\* for which a callback thread was started is, once the thread is over,
\* delivered to at least one callback or on the queue.
C17_DeliveredOrQueuedUnderChange ==
    \A p \in Received :
        thr[p].pc = "done" => (log[p] # <<>> \/ InQueue(p))

\* =========================================================== dispatch keys
\* The dispatch pipeline with the keys written out by the application and
\* pairs whose digits run together.
KeyStreams == {1, 11}
KeyFunctions == {1, 11}

\* The key strings the application registers under, each with the pair it
\* stands for.
KeyLiterals ==
    {[pair |-> <<1, 1>>, key |-> <<"s", "1", "f", "1">>],
     [pair |-> <<1, 11>>, key |-> <<"s", "1", "f", "1", "1">>],
     [pair |-> <<11, 1>>, key |-> <<"s", "1", "1", "f", "1">>]}

KeyRegistries ==
    {[k \in {l.key : l \in ls} |-> <<1>>] :
        ls \in {x \in SUBSET KeyLiterals : Cardinality(x) \in 1..MaxCallbacks}}

InitKey ==
    /\ isHost = TRUE
    /\ callbacks \in KeyRegistries
    /\ packets = <<>>
    /\ rx = <<>>
    /\ joined = 0
    /\ thr = <<>>
    /\ log = <<>>
    /\ queue = <<>>
    /\ connection = FALSE
    /\ call = NoCall

NextKey ==
    \/ \E s \in KeyStreams, f \in KeyFunctions : OnHsmsPacketReceived(s, f, "ok")
    \/ \E p \in Received : RunCallbacksBegin(p)
    \/ \E p \in Received, r \in {"True", "False"} : RunCallbacksCall(p, r)
    \/ \E p \in Received : RunCallbacksEnd(p)

SpecKey == InitKey /\ [][NextKey]_vars

\* The pairs the application registered callbacks for.
RegisteredPairs == {l.pair : l \in {x \in KeyLiterals : x.key \in DOMAIN callbacks}}

\* ----------------------------------------------------------------- C19
\* C19: the key of a packet is "s", the decimal stream, "f", the decimal
\* function, from the header alone: packets get the same key exactly when
\* they have the same pair, and a packet gets a callback thread, and its
\* callbacks called, exactly when the application registered under the
\* key string of its own pair.
C19_KeyMatchesPair ==
    /\ \A p, q \in Received :
           KeyOf(p) = KeyOf(q) <=>
               (packets[p].stream = packets[q].stream
                    /\ packets[p].function = packets[q].function)
    /\ \A p \in Received :
           /\ thr[p].pc # "none" <=>
                  <<packets[p].stream, packets[p].function>> \in RegisteredPairs
           /\ log[p] # <<>> =>
                  <<packets[p].stream, packets[p].function>> \in RegisteredPairs

\* Callbacks are registered under "s1f11" only; a packet of (1, 11) had
\* its callback called and a packet of (11, 1) was queued directly.
C19_Witness ==
    /\ RegisteredPairs = {<<1, 11>>}
    /\ \E p, q \in Received :
           /\ packets[p].stream = 1 /\ packets[p].function = 11 /\ log[p] # <<>>
           /\ packets[q].stream = 11 /\ packets[q].function = 1
           /\ thr[q].pc = "none" /\ InQueue(q)

====
